---- MODULE Spec2Model ----
(***************************************************************************)
(* Model of WisperFlow/Scripts/faster_whisper_server.py: a single-threaded *)
(* command server that reads one JSON request per line from stdin and      *)
(* writes one JSON response per line to stdout.                            *)
(*                                                                         *)
(* Python values are modelled as follows.  A dict (a JSON object) is a     *)
(* TLA+ record that has exactly the keys the dict has.  A str is a string. *)
(* None (JSON null) is the value None below, a JSON array is EmptyList.    *)
(* The model handle is a tuple, NoModel standing for self.model = None.    *)
(***************************************************************************)
EXTENDS Integers, Sequences, FiniteSets

VARIABLES
    pc,          \* position of the process: "start", "nodeps", "loop", "quit",
                 \* "eof", "crash"
    model,       \* self.model
    model_size,  \* self.model_size
    stdin_left,  \* number of lines still unread on stdin
    consumed,    \* the lines read from stdin so far, in order
    stdout,      \* the lines written to stdout so far, in order
    calls        \* the calls made to the external collaborators, in order

vars == <<pc, model, model_size, stdin_left, consumed, stdout, calls>>

\* Bounds of the model.
MaxLines == 3
MaxLoadLines == 2
MaxAudioLines == 2
MaxFrames == 3

\* Python None, also what json.loads gives for JSON null.
None == "<None>"
\* A JSON array value, as json.loads gives it (a Python list).
EmptyList == "<list>"
\* self.model = None
NoModel == << >>

(***************************************************************************)
(* The file system and the WAV containers on it.                           *)
(***************************************************************************)
\* The rate faster-whisper expects.
TargetRate == 16000

\* The WAV files the audio loader is tried on: 16-bit files of up to
\* MaxFrames frames, mono or stereo, at the target rate and at rates that are
\* resampled up and down.
Rates == {8000, 16000, 32000}

GeneratedWavs ==
    [n_frames : 0..MaxFrames, sample_rate : Rates, n_channels : {1, 2}]

Digit(n) ==
    CASE n = 0 -> "0" [] n = 1 -> "1" [] n = 2 -> "2" [] n = 3 -> "3"
      [] n = 4 -> "4" [] n = 5 -> "5" [] n = 6 -> "6" [] n = 7 -> "7"
      [] n = 8 -> "8" [] OTHER -> "9"

RateText(r) ==
    CASE r = 8000 -> "8000" [] r = 16000 -> "16000" [] OTHER -> "32000"

\* The name of the generated file with the header w.
WavPath(w) ==
    "n" \o Digit(w.n_frames) \o "_" \o RateText(w.sample_rate) \o "_"
        \o Digit(w.n_channels) \o "ch.wav"

\* The raw sample of channel c in frame i: all different, so that a buffer
\* tells where each of its values comes from.
Sample(i, c) == 100 * i + 10 * (c - 1) + 7

\* readframes(n_frames): the n frames, one tuple of channel samples each.
Frames(n, channels) ==
    [i \in 1..n |-> [c \in 1..channels |-> Sample(i, c)]]

\* The files on disk: whether wave.open can parse the file as a WAV
\* container, and what its header and readframes report.
Files ==
    [p \in {"pcm16.wav", "pcm8.wav", "clip.mp3"}
            \cup {WavPath(w) : w \in GeneratedWavs} |->
        CASE p = "pcm16.wav" ->
                 [wav |-> TRUE, sample_width |-> 2, n_channels |-> 1,
                  sample_rate |-> 16000, frames |-> Frames(2, 1)]
          [] p = "pcm8.wav"  ->
                 [wav |-> TRUE, sample_width |-> 1, n_channels |-> 1,
                  sample_rate |-> 16000, frames |-> Frames(2, 1)]
          [] p = "clip.mp3"  ->
                 [wav |-> FALSE, sample_width |-> 0, n_channels |-> 0,
                  sample_rate |-> 0, frames |-> << >>]
          [] OTHER ->
                 LET w == CHOOSE w \in GeneratedWavs : WavPath(w) = p
                 IN  [wav |-> TRUE, sample_width |-> 2,
                      n_channels |-> w.n_channels,
                      sample_rate |-> w.sample_rate,
                      frames |-> Frames(w.n_frames, w.n_channels)]]

ExistingFiles == DOMAIN Files

\* str(n) of a sample width.
str(n) ==
    CASE n = 0 -> "0" [] n = 1 -> "1" [] n = 2 -> "2" [] n = 3 -> "3"
      [] OTHER -> "4"

\* The values os.stat accepts as a path without raising TypeError.
IsPathLike(v) == v \notin {None, EmptyList}

\* os.path.exists(v) for a path-like v.
path_exists(v) == v \in ExistingFiles

(***************************************************************************)
(* Input lines.  A line is blank (whitespace only), not JSON, a JSON value *)
(* that is no object, or a JSON object (a request).                        *)
(***************************************************************************)
BlankLines == {[syntax |-> "blank", text |-> t] : t \in {"", "  "}}

InvalidLines == {[syntax |-> "invalid", text |-> "not json"]}

ValueLines == {[syntax |-> "value", text |-> "42"]}

Obj(request) == [syntax |-> "object", obj |-> request]

PingLines == {Obj([command |-> "ping"])}

QuitLines == {Obj([command |-> "quit"])}

UnknownLines == {Obj([command |-> "status"]), Obj([model_size |-> "base"])}

TranscribeLines ==
    {Obj([command |-> "transcribe"])} \cup
    {Obj([command |-> "transcribe", audio_path |-> p]) :
        p \in {"missing.wav", "pcm16.wav", "pcm8.wav", "clip.mp3",
              None, EmptyList}}

LoadLines ==
    { Obj([command |-> "load"]),
      Obj([command |-> "load", model_size |-> "small", device |-> "cuda"]),
      Obj([command |-> "load", device |-> "cpu", compute_type |-> "auto"]) }

\* Every combination of device and compute_type, explicit, "auto" or absent.
Absent == "<absent>"
LoadRequest(d, c) ==
    IF d = Absent /\ c = Absent THEN [command |-> "load"]
    ELSE IF d = Absent THEN [command |-> "load", compute_type |-> c]
    ELSE IF c = Absent THEN [command |-> "load", device |-> d]
    ELSE [command |-> "load", device |-> d, compute_type |-> c]

AllLoadLines ==
    { Obj(LoadRequest(d, c)) :
        d \in {Absent, "auto", "cuda", "cpu"},
        c \in {Absent, "auto", "float16", "int8"} }

\* What the environment can answer.
Probes == {"cuda", "nocuda", "notorch", "broken"}
CtorOutcomes == {"ok", "raise"}
EngineOutcomes == {"ok", "raise"}

CtorError == "model construction failed"
ProbeError == "torch failed to initialise"
EngineError == "inference failed"

(***************************************************************************)
(* Helpers of run().                                                       *)
(***************************************************************************)
\* line.strip(): a whitespace-only line strips to the empty string; the other
\* lines of the model carry no surrounding whitespace but the newline.
strip(line) ==
    IF line.syntax = "blank" THEN [line EXCEPT !.text = ""] ELSE line

\* not line
IsEmpty(line) == line.syntax = "blank" /\ line.text = ""

\* str(e) of the json.JSONDecodeError raised for the text.
JSONDecodeError(text) == "Expecting value: line 1 column 1 (char 0)"

\* request.get(key, default)
Get(request, key, default) ==
    IF key \in DOMAIN request THEN request[key] ELSE default

\* json.loads(line): the parsed value, or the JSONDecodeError it raises.
json_loads(line) ==
    IF line.syntax \in {"invalid", "blank"}
    THEN [ok |-> FALSE, error |-> JSONDecodeError(line.text)]
    ELSE IF line.syntax = "object"
    THEN [ok |-> TRUE, isdict |-> TRUE, value |-> line.obj]
    ELSE [ok |-> TRUE, isdict |-> FALSE, value |-> line.text]

\* The calls of one request, tagged with the number of the line that made them.
Tag(at, cs) == [k \in 1..Len(cs) |-> <<at, cs[k]>>]

(***************************************************************************)
(* FasterWhisperServer.load_model                                          *)
(***************************************************************************)
\* compute_type after the first if: decided by the device as requested.
resolve_compute_type(device, compute_type) ==
    IF compute_type = "auto"
    THEN IF device = "cuda" THEN "float16" ELSE "int8"
    ELSE compute_type

\* The second if left out: the device is passed on as requested.
resolve_device_unresolved(device, probe) ==
    [raised |-> FALSE, device |-> device]

\* device after the second if: the GPU probe decides "auto".  An ImportError
\* of torch gives "cpu"; any other exception of the probe leaves the try.
resolve_device(device, probe) ==
    IF device = "auto"
    THEN CASE probe = "cuda"    -> [raised |-> FALSE, device |-> "cuda"]
           [] probe = "nocuda"  -> [raised |-> FALSE, device |-> "cpu"]
           [] probe = "notorch" -> [raised |-> FALSE, device |-> "cpu"]
           [] OTHER             -> [raised |-> TRUE, error |-> ProbeError]
    ELSE [raised |-> FALSE, device |-> device]

\* load_model dropping the model it holds when the constructor raises.
load_model_reset_on_failure(m, ms, size, device, compute_type, probe, ctor) ==
    LET ct == resolve_compute_type(device, compute_type)
        dv == resolve_device(device, probe)
    IN  IF dv.raised
        THEN [model |-> m, model_size |-> ms, calls |-> << >>,
              result |-> [success |-> FALSE, error |-> dv.error]]
        ELSE LET call == [fn |-> "WhisperModel", model_size |-> size,
                          device |-> dv.device, compute_type |-> ct]
             IN  IF ctor = "raise"
                 THEN [model |-> NoModel, model_size |-> None,
                       calls |-> <<call>>,
                       result |-> [success |-> FALSE, error |-> CtorError]]
                 ELSE [model |-> <<size, dv.device, ct>>, model_size |-> size,
                       calls |-> <<call>>,
                       result |-> [success |-> TRUE, model |-> size,
                                   device |-> dv.device, compute_type |-> ct]]

\* load_model storing the handle but not the identifier.
load_model_no_size(m, ms, size, device, compute_type, probe, ctor) ==
    LET ct == resolve_compute_type(device, compute_type)
        dv == resolve_device(device, probe)
    IN  IF dv.raised
        THEN [model |-> m, model_size |-> ms, calls |-> << >>,
              result |-> [success |-> FALSE, error |-> dv.error]]
        ELSE LET call == [fn |-> "WhisperModel", model_size |-> size,
                          device |-> dv.device, compute_type |-> ct]
             IN  IF ctor = "raise"
                 THEN [model |-> m, model_size |-> ms, calls |-> <<call>>,
                       result |-> [success |-> FALSE, error |-> CtorError]]
                 ELSE [model |-> <<size, dv.device, ct>>, model_size |-> ms,
                       calls |-> <<call>>,
                       result |-> [success |-> TRUE, model |-> size,
                                   device |-> dv.device, compute_type |-> ct]]

\* load_model storing the identifier before the constructor has returned.
load_model_size_first(m, ms, size, device, compute_type, probe, ctor) ==
    LET ct == resolve_compute_type(device, compute_type)
        dv == resolve_device(device, probe)
    IN  IF dv.raised
        THEN [model |-> m, model_size |-> ms, calls |-> << >>,
              result |-> [success |-> FALSE, error |-> dv.error]]
        ELSE LET call == [fn |-> "WhisperModel", model_size |-> size,
                          device |-> dv.device, compute_type |-> ct]
             IN  IF ctor = "raise"
                 THEN [model |-> m, model_size |-> size, calls |-> <<call>>,
                       result |-> [success |-> FALSE, error |-> CtorError]]
                 ELSE [model |-> <<size, dv.device, ct>>, model_size |-> size,
                       calls |-> <<call>>,
                       result |-> [success |-> TRUE, model |-> size,
                                   device |-> dv.device, compute_type |-> ct]]

\* load_model on the state (m, ms): the new state, the result it returns and
\* the calls it makes.  probe and ctor are the environment's answers.
load_model(m, ms, size, device, compute_type, probe, ctor) ==
    LET ct == resolve_compute_type(device, compute_type)
        dv == resolve_device(device, probe)
    IN  IF dv.raised
        THEN [model |-> m, model_size |-> ms, calls |-> << >>,
              result |-> [success |-> FALSE, error |-> dv.error]]
        ELSE LET call == [fn |-> "WhisperModel", model_size |-> size,
                          device |-> dv.device, compute_type |-> ct]
             IN  IF ctor = "raise"
                 THEN [model |-> m, model_size |-> ms, calls |-> <<call>>,
                       result |-> [success |-> FALSE, error |-> CtorError]]
                 ELSE [model |-> <<size, dv.device, ct>>, model_size |-> size,
                       calls |-> <<call>>,
                       result |-> [success |-> TRUE, model |-> size,
                                   device |-> dv.device, compute_type |-> ct]]

(***************************************************************************)
(* FasterWhisperServer._load_audio                                         *)
(***************************************************************************)
\* Sample values are exact rationals [n, d] in units of the full scale of
\* the sample type (2^15 for int16, 2^31 for int32); the rounding of float32
\* is left out.
RECURSIVE SumSeq(_)
SumSeq(q) == IF q = << >> THEN 0 ELSE Head(q) + SumSeq(Tail(q))

\* reshape(-1, n_channels).mean(axis=1): the mean of the channels of each
\* frame; a mono file is taken as it is.
downmix(frames, n_channels) ==
    [i \in 1..Len(frames) |-> [n |-> SumSeq(frames[i]), d |-> n_channels]]

\* int(len(audio) * ratio) with ratio = 16000 / sample_rate.  The product is
\* a double; for the lengths of the model (up to 12 frames) its integer part
\* is that of the exact quotient.
new_length(len, sample_rate) == (len * TargetRate) \div sample_rate

\* np.interp at the index a/b of np.linspace(0, len - 1, new_length): the
\* value itself at a whole index, the linear interpolation of its two
\* neighbours in between.
interp(a, b, fp) ==
    LET lo == a \div b
        r  == a - lo * b
    IN  IF r = 0 THEN fp[lo + 1]
        ELSE [n |-> fp[lo + 1].n * b + (fp[lo + 2].n - fp[lo + 1].n) * r,
              d |-> fp[lo + 1].d * b]

\* The resampling of lines 144-149.  np.interp raises ValueError when the
\* array of sample points is empty.
resample(audio, sample_rate) ==
    IF sample_rate = TargetRate
    THEN [raised |-> FALSE, audio |-> audio]
    ELSE LET L == new_length(Len(audio), sample_rate)
         IN  IF Len(audio) = 0
             THEN [raised |-> TRUE, error |-> "array of sample points is empty"]
             ELSE [raised |-> FALSE,
                   audio |-> IF L = 0 THEN << >>
                             ELSE IF L = 1 THEN <<interp(0, 1, audio)>>
                             ELSE [k \in 1..L |->
                                      interp((k - 1) * (Len(audio) - 1),
                                             L - 1, audio)]]

\* The try block: wave.open raises on a file that is no WAV container, a
\* 2- or 4-byte WAV gives the sample buffer, any other width raises ValueError.
load_audio_try(audio_path) ==
    LET wf == Files[audio_path]
    IN  IF ~wf.wav
        THEN [raised |-> TRUE, error |-> "file does not start with RIFF id"]
        ELSE IF wf.sample_width = 2 \/ wf.sample_width = 4
        THEN LET r == resample(downmix(wf.frames, wf.n_channels),
                               wf.sample_rate)
             IN  IF r.raised THEN r
                 ELSE [raised |-> FALSE,
                       value |-> [kind |-> "buffer",
                                  full_scale_bits |-> 8 * wf.sample_width - 1,
                                  samples |-> r.audio]]
        ELSE [raised |-> TRUE,
              error |-> "Unsupported sample width: " \o str(wf.sample_width)]

\* _load_audio catching the error of wave.open alone.
load_audio_narrow_except(audio_path) ==
    LET attempt == load_audio_try(audio_path)
    IN  IF attempt.raised /\ ~Files[audio_path].wav
        THEN [raised |-> FALSE,
              value |-> [kind |-> "path", path |-> audio_path]]
        ELSE attempt

\* _load_audio without its except clause: the exception reaches the caller.
load_audio_no_except(audio_path) == load_audio_try(audio_path)

\* _load_audio: the except clause turns every exception of the try block
\* into the fallback value, the path itself.
load_audio(audio_path) ==
    LET attempt == load_audio_try(audio_path)
    IN  IF attempt.raised
        THEN [raised |-> FALSE,
              value |-> [kind |-> "path", path |-> audio_path]]
        ELSE attempt

(***************************************************************************)
(* FasterWhisperServer.transcribe                                          *)
(***************************************************************************)
\* The part of transcribe inside its try: load the audio, run the engine.
transcribe_body(m, audio_path, language, engine) ==
    LET audio == load_audio(audio_path)
        c1 == [fn |-> "_load_audio", audio_path |-> audio_path]
    IN  IF audio.raised
        THEN [raised |-> FALSE, calls |-> <<c1>>,
              result |-> [success |-> FALSE, error |-> audio.error]]
        ELSE LET c2 == [fn |-> "transcribe", model |-> m,
                        audio |-> audio.value, language |-> language]
             IN  IF engine = "raise"
                 THEN [raised |-> FALSE, calls |-> <<c1, c2>>,
                       result |-> [success |-> FALSE, error |-> EngineError]]
                 ELSE [raised |-> FALSE, calls |-> <<c1, c2>>,
                       result |-> [success |-> TRUE, text |-> "hello",
                                   duration |-> "<seconds>",
                                   language |-> IF language = None THEN "en"
                                                ELSE language,
                                   language_probability |-> "<probability>"]]

\* transcribe with its two precondition checks in the other order.
transcribe_exists_first(m, audio_path, language, engine) ==
    IF ~IsPathLike(audio_path)
    THEN [raised |-> TRUE, calls |-> << >>]
    ELSE IF ~path_exists(audio_path)
    THEN [raised |-> FALSE, calls |-> << >>,
          result |-> [success |-> FALSE,
                      error |-> "Audio file not found: " \o audio_path]]
    ELSE IF m = NoModel
    THEN [raised |-> FALSE, calls |-> << >>,
          result |-> [success |-> FALSE, error |-> "Model not loaded"]]
    ELSE transcribe_body(m, audio_path, language, engine)

\* transcribe with the path left out of the file-not-found message.
transcribe_unnamed_path(m, audio_path, language, engine) ==
    IF m = NoModel
    THEN [raised |-> FALSE, calls |-> << >>,
          result |-> [success |-> FALSE, error |-> "Model not loaded"]]
    ELSE IF ~IsPathLike(audio_path)
    THEN [raised |-> TRUE, calls |-> << >>]
    ELSE IF ~path_exists(audio_path)
    THEN [raised |-> FALSE, calls |-> << >>,
          result |-> [success |-> FALSE, error |-> "Audio file not found"]]
    ELSE transcribe_body(m, audio_path, language, engine)

\* transcribe on the model handle m: the result it returns, or the exception
\* that leaves it (os.path.exists is outside the try and raises TypeError
\* for a value that is no path).
transcribe(m, audio_path, language, engine) ==
    IF m = NoModel
    THEN [raised |-> FALSE, calls |-> << >>,
          result |-> [success |-> FALSE, error |-> "Model not loaded"]]
    ELSE IF ~IsPathLike(audio_path)
    THEN [raised |-> TRUE, calls |-> << >>]
    ELSE IF ~path_exists(audio_path)
    THEN [raised |-> FALSE, calls |-> << >>,
          result |-> [success |-> FALSE,
                      error |-> "Audio file not found: " \o audio_path]]
    ELSE transcribe_body(m, audio_path, language, engine)

(***************************************************************************)
(* FasterWhisperServer.run                                                 *)
(***************************************************************************)
Init ==
    /\ pc = "start"
    /\ model = NoModel
    /\ model_size = None
    /\ stdin_left \in 0..MaxLines
    /\ consumed = << >>
    /\ stdout = << >>
    /\ calls = << >>

\* print(json.dumps(obj), flush=True)
Emit(obj) == stdout' = Append(stdout, obj)

\* The import guard of the module: faster_whisper is not installed, the
\* failure line is written and the process exits with status 1.
ImportError ==
    /\ pc = "start"
    /\ Emit([success |-> FALSE,
             error |-> "faster-whisper not installed. Run: pip install faster-whisper"])
    /\ pc' = "nodeps"
    /\ UNCHANGED <<model, model_size, stdin_left, consumed, calls>>

\* run() starting without its banner.
Banner_silent ==
    /\ pc = "start"
    /\ pc' = "loop"
    /\ UNCHANGED <<model, model_size, stdin_left, consumed, stdout, calls>>

\* The import succeeded and run() is called: the banner is written before
\* the loop starts.
Banner ==
    /\ pc = "start"
    /\ Emit([ready |-> TRUE, version |-> "1.0"])
    /\ pc' = "loop"
    /\ UNCHANGED <<model, model_size, stdin_left, consumed, calls>>

\* for line in sys.stdin: the next line is taken off stdin.
Read(line) ==
    /\ pc = "loop"
    /\ stdin_left > 0
    /\ stdin_left' = stdin_left - 1
    /\ consumed' = Append(consumed, line)

\* The request of a line that passed the blank test and json.loads.
IsRequest(line) ==
    /\ ~IsEmpty(strip(line))
    /\ json_loads(strip(line)).ok

command(line) == Get(json_loads(strip(line)).value, "command", "")

\* A blank line: continue.
Blank(Lines) ==
    \E line \in Lines :
        /\ Read(line)
        /\ IsEmpty(strip(line))
        /\ UNCHANGED <<pc, model, model_size, stdout, calls>>

\* The except clause without its continue: the loop body goes on to use the
\* request that was never bound, and the NameError ends the process.
InvalidJSON_no_continue(Lines) ==
    \E line \in Lines :
        /\ Read(line)
        /\ ~IsEmpty(strip(line))
        /\ ~json_loads(strip(line)).ok
        /\ Emit([success |-> FALSE,
                 error |-> "Invalid JSON: " \o json_loads(strip(line)).error])
        /\ pc' = "crash"
        /\ UNCHANGED <<model, model_size, calls>>

\* json.loads raises JSONDecodeError: report it and continue.
InvalidJSON(Lines) ==
    \E line \in Lines :
        /\ Read(line)
        /\ ~IsEmpty(strip(line))
        /\ ~json_loads(strip(line)).ok
        /\ Emit([success |-> FALSE,
                  error |-> "Invalid JSON: " \o json_loads(strip(line)).error])
        /\ UNCHANGED <<pc, model, model_size, calls>>

\* The line is JSON but no object: request.get raises AttributeError, which
\* nothing catches, and the process ends with a traceback on stderr.
NotAnObject(Lines) ==
    \E line \in Lines :
        /\ Read(line)
        /\ IsRequest(line)
        /\ ~json_loads(strip(line)).isdict
        /\ pc' = "crash"
        /\ UNCHANGED <<model, model_size, stdout, calls>>

\* ping answering with the pong flag alone.
Ping_bare(Lines) ==
    \E line \in Lines :
        /\ Read(line)
        /\ IsRequest(line)
        /\ json_loads(strip(line)).isdict
        /\ command(line) = "ping"
        /\ Emit([pong |-> TRUE, model |-> model_size])
        /\ UNCHANGED <<pc, model, model_size, calls>>

Ping(Lines) ==
    \E line \in Lines :
        /\ Read(line)
        /\ IsRequest(line)
        /\ json_loads(strip(line)).isdict
        /\ command(line) = "ping"
        /\ Emit([success |-> TRUE, pong |-> TRUE, model |-> model_size])
        /\ UNCHANGED <<pc, model, model_size, calls>>

Load(Lines) ==
    \E line \in Lines, probe \in Probes, ctor \in CtorOutcomes :
        /\ Read(line)
        /\ IsRequest(line)
        /\ json_loads(strip(line)).isdict
        /\ command(line) = "load"
        /\ LET request == json_loads(strip(line)).value
               r == load_model(model, model_size,
                               Get(request, "model_size", "base"),
                               Get(request, "device", "auto"),
                               Get(request, "compute_type", "auto"),
                               probe, ctor)
           IN  /\ model' = r.model
               /\ model_size' = r.model_size
               /\ calls' = calls \o Tag(Len(consumed) + 1, r.calls)
               /\ Emit(r.result)
        /\ UNCHANGED pc

Transcribe(Lines) ==
    \E line \in Lines, engine \in EngineOutcomes :
        /\ Read(line)
        /\ IsRequest(line)
        /\ json_loads(strip(line)).isdict
        /\ command(line) = "transcribe"
        /\ LET request == json_loads(strip(line)).value
               r == transcribe(model, Get(request, "audio_path", ""),
                               Get(request, "language", None), engine)
           IN  /\ calls' = calls \o Tag(Len(consumed) + 1, r.calls)
               /\ IF r.raised
                  THEN pc' = "crash" /\ UNCHANGED stdout
                  ELSE Emit(r.result) /\ UNCHANGED pc
        /\ UNCHANGED <<model, model_size>>

\* quit releasing the model before it leaves the loop.
Quit_unloads(Lines) ==
    \E line \in Lines :
        /\ Read(line)
        /\ IsRequest(line)
        /\ json_loads(strip(line)).isdict
        /\ command(line) = "quit"
        /\ Emit([success |-> TRUE, goodbye |-> TRUE])
        /\ pc' = "quit"
        /\ model' = NoModel
        /\ model_size' = None
        /\ UNCHANGED calls

\* quit without the break: the loop goes on.
Quit_no_break(Lines) ==
    \E line \in Lines :
        /\ Read(line)
        /\ IsRequest(line)
        /\ json_loads(strip(line)).isdict
        /\ command(line) = "quit"
        /\ Emit([success |-> TRUE, goodbye |-> TRUE])
        /\ UNCHANGED <<pc, model, model_size, calls>>

Quit(Lines) ==
    \E line \in Lines :
        /\ Read(line)
        /\ IsRequest(line)
        /\ json_loads(strip(line)).isdict
        /\ command(line) = "quit"
        /\ Emit([success |-> TRUE, goodbye |-> TRUE])
        /\ pc' = "quit"
        /\ UNCHANGED <<model, model_size, calls>>

\* The command read with request["command"]: a request without the field
\* raises KeyError, which ends the process.
Unknown_keyerror(Lines) ==
    \E line \in Lines :
        /\ Read(line)
        /\ IsRequest(line)
        /\ json_loads(strip(line)).isdict
        /\ command(line) \notin {"ping", "load", "transcribe", "quit"}
        /\ IF "command" \in DOMAIN json_loads(strip(line)).value
           THEN /\ Emit([success |-> FALSE,
                         error |-> "Unknown command: " \o command(line)])
                /\ UNCHANGED pc
           ELSE pc' = "crash" /\ UNCHANGED stdout
        /\ UNCHANGED <<model, model_size, calls>>

Unknown(Lines) ==
    \E line \in Lines :
        /\ Read(line)
        /\ IsRequest(line)
        /\ json_loads(strip(line)).isdict
        /\ command(line) \notin {"ping", "load", "transcribe", "quit"}
        /\ Emit([success |-> FALSE,
                  error |-> "Unknown command: " \o command(line)])
        /\ UNCHANGED <<pc, model, model_size, calls>>

\* stdin is exhausted: the for loop ends and run() returns.
EndOfInput ==
    /\ pc = "loop"
    /\ stdin_left = 0
    /\ pc' = "eof"
    /\ UNCHANGED <<model, model_size, stdin_left, consumed, stdout, calls>>

\* The lines the server is fed.
AllLines ==
    BlankLines \cup InvalidLines \cup ValueLines \cup PingLines \cup QuitLines
        \cup UnknownLines \cup TranscribeLines \cup LoadLines

Next ==
    \/ ImportError
    \/ Banner
    \/ Blank(AllLines)
    \/ InvalidJSON(AllLines)
    \/ NotAnObject(AllLines)
    \/ Ping(AllLines)
    \/ Load(AllLines)
    \/ Transcribe(AllLines)
    \/ Quit(AllLines)
    \/ Unknown(AllLines)
    \/ EndOfInput

Spec == Init /\ [][Next]_vars

(***************************************************************************)
(* The server fed with load requests alone, of every combination of device *)
(* and compute_type, each followed by whatever the environment answers.    *)
(***************************************************************************)
InitLoad ==
    /\ pc = "start"
    /\ model = NoModel
    /\ model_size = None
    /\ stdin_left \in 0..MaxLoadLines
    /\ consumed = << >>
    /\ stdout = << >>
    /\ calls = << >>

NextLoad ==
    \/ Banner
    \/ Load(AllLoadLines)
    \/ EndOfInput

LoadSpec == InitLoad /\ [][NextLoad]_vars

(***************************************************************************)
(* The server fed with a load request and transcribe requests for the      *)
(* generated WAV files, for a file that is no WAV container and for a WAV  *)
(* of an unsupported sample width.                                         *)
(***************************************************************************)
AudioLines ==
    {Obj([command |-> "load"])} \cup
    {Obj([command |-> "transcribe", audio_path |-> p]) :
        p \in {WavPath(w) : w \in GeneratedWavs} \cup {"pcm8.wav", "clip.mp3"}}

InitAudio ==
    /\ pc = "start"
    /\ model = NoModel
    /\ model_size = None
    /\ stdin_left \in 0..MaxAudioLines
    /\ consumed = << >>
    /\ stdout = << >>
    /\ calls = << >>

NextAudio ==
    \/ Banner
    \/ Load(AudioLines)
    \/ Transcribe(AudioLines)
    \/ EndOfInput

AudioSpec == InitAudio /\ [][NextAudio]_vars

(***************************************************************************)
(* The claims.  Requests and responses are paired by position: the         *)
(* response to the i-th line read is the one written after the banner and  *)
(* after the responses to the earlier lines that are not blank.            *)
(***************************************************************************)
Lines == 1..Len(consumed)

IsBlankLine(line) == line.syntax = "blank"

IsCmd(line, c) ==
    /\ line.syntax = "object"
    /\ "command" \in DOMAIN line.obj
    /\ line.obj.command = c

NonBlankCount(i) == Cardinality({j \in 1..i : ~IsBlankLine(consumed[j])})

RespIndex(i) == 1 + NonBlankCount(i)

HasResp(i) == RespIndex(i) <= Len(stdout)

RespOf(i) == stdout[RespIndex(i)]

\* The i-th line is a load request that was answered with success.
LoadSucceeded(i) ==
    /\ IsCmd(consumed[i], "load")
    /\ HasResp(i)
    /\ RespOf(i).success

LoadSucceededBefore(i) == \E j \in 1..(i - 1) : LoadSucceeded(j)

CallsAt(i) == {k \in 1..Len(calls) : calls[k][1] = i}

\* C1: every non-blank line read produces exactly one response line before
\* the next line is read, whatever its content, and blank lines produce
\* none: at every point of the loop the number of responses after the
\* banner is the number of non-blank lines read.
C1_OneResponsePerLine ==
    pc # "start" => Len(stdout) = 1 + NonBlankCount(Len(consumed))

\* C2: while no load has succeeded, every transcribe request is answered
\* {success: false, error: "Model not loaded"} whatever its audio_path, and
\* neither the audio loader nor the engine is called for it.
C2_TranscribeBeforeLoad ==
    \A i \in Lines :
        (IsCmd(consumed[i], "transcribe") /\ ~LoadSucceededBefore(i)) =>
            /\ HasResp(i)
            /\ RespOf(i) = [success |-> FALSE, error |-> "Model not loaded"]
            /\ CallsAt(i) = {}

C2_Witness ==
    \E i \in Lines, j \in Lines :
        /\ i < j
        /\ IsCmd(consumed[i], "transcribe") /\ IsCmd(consumed[j], "transcribe")
        /\ ~LoadSucceededBefore(j)
        /\ Get(consumed[i].obj, "audio_path", "") = None
        /\ Get(consumed[j].obj, "audio_path", "") = "pcm16.wav"
        /\ HasResp(j)
        /\ RespOf(i).error = "Model not loaded"
        /\ RespOf(j).error = "Model not loaded"

\* The model_size of the most recent load answered with success before the
\* i-th line, None when there is none.
LastLoaded(i) ==
    LET S == {j \in 1..(i - 1) : LoadSucceeded(j)}
    IN  IF S = {} THEN None
        ELSE LET j == CHOOSE x \in S : \A y \in S : y <= x
             IN  Get(consumed[j].obj, "model_size", "base")

\* C3: every ping is answered success, pong true and model equal to the
\* model_size of the most recent successful load, null when no load has
\* succeeded.
C3_PingReportsLastLoad ==
    \A i \in Lines :
        IsCmd(consumed[i], "ping") =>
            /\ HasResp(i)
            /\ RespOf(i) = [success |-> TRUE, pong |-> TRUE,
                            model |-> LastLoaded(i)]

C3_Witness ==
    /\ Len(consumed) = 3
    /\ LoadSucceeded(1) /\ RespOf(1).model = "small"
    /\ LoadSucceeded(2)
    /\ IsCmd(consumed[3], "ping")
    /\ HasResp(3)
    /\ RespOf(3).model = "base"

\* C4: a quit request is answered by exactly one response {success: true,
\* goodbye: true}; it is the last line read and its response the last line
\* written, also when more lines wait on stdin.
C4_QuitEndsLoop ==
    \A i \in Lines :
        IsCmd(consumed[i], "quit") =>
            /\ i = Len(consumed)
            /\ pc = "quit"
            /\ HasResp(i)
            /\ RespIndex(i) = Len(stdout)
            /\ RespOf(i) = [success |-> TRUE, goodbye |-> TRUE]

C4_Witness ==
    /\ pc = "quit"
    /\ stdin_left > 0
    /\ model # NoModel
    /\ IsCmd(consumed[Len(consumed)], "quit")

\* The i-th line is a load request that leaves compute_type to the server.
IsAutoComputeLoad(i) ==
    /\ IsCmd(consumed[i], "load")
    /\ Get(consumed[i].obj, "compute_type", "auto") = "auto"

\* C5: a load with compute_type "auto" succeeds with compute_type "float16"
\* exactly when the device of the same result is "cuda", and with "int8"
\* when that device is "cpu", for every requested device.
C5_ComputeTypeFollowsDevice ==
    \A i \in Lines :
        (IsAutoComputeLoad(i) /\ LoadSucceeded(i)) =>
            /\ RespOf(i).compute_type = "float16" <=> RespOf(i).device = "cuda"
            /\ RespOf(i).device = "cpu" => RespOf(i).compute_type = "int8"

\* C6: once a load has succeeded, every transcribe request is answered by a
\* structured result, whatever value its audio_path carries: no exception
\* leaves transcribe.
C6_TranscribeNeverRaises ==
    \A i \in Lines :
        (IsCmd(consumed[i], "transcribe") /\ LoadSucceededBefore(i)) =>
            /\ HasResp(i)
            /\ "success" \in DOMAIN RespOf(i)

\* The i-th line is a transcribe request, made after a successful load, for
\* a WAV file on disk whose sample width is neither 2 nor 4 bytes.
IsOddWidthTranscribe(i) ==
    /\ IsCmd(consumed[i], "transcribe")
    /\ LoadSucceededBefore(i)
    /\ LET p == Get(consumed[i].obj, "audio_path", "")
       IN  /\ p \in ExistingFiles
           /\ Files[p].wav
           /\ Files[p].sample_width \notin {2, 4}

EngineCallsAt(i) == {k \in CallsAt(i) : calls[k][2].fn = "transcribe"}

\* C7 as claimed: a transcribe of a WAV file whose sample width is neither 2
\* nor 4 bytes is answered by a failure carrying the unsupported-sample-width
\* message, and the engine is not run on that input.
C7_OddWidthReported ==
    \A i \in Lines :
        IsOddWidthTranscribe(i) =>
            /\ HasResp(i)
            /\ RespOf(i) =
                 [success |-> FALSE,
                  error |-> "Unsupported sample width: " \o
                      str(Files[Get(consumed[i].obj, "audio_path", "")].sample_width)]
            /\ EngineCallsAt(i) = {}

\* C7 as amended: for such a file the audio loader is called and hands back the
\* path, the engine is run on that path, and the response is the engine's
\* outcome: a success, or a failure carrying the engine's message.
C7_OddWidthFallsBackToPath ==
    \A i \in Lines :
        IsOddWidthTranscribe(i) =>
            LET p == Get(consumed[i].obj, "audio_path", "")
            IN  /\ HasResp(i)
                /\ \E k \in CallsAt(i) :
                       calls[k][2] = [fn |-> "_load_audio", audio_path |-> p]
                /\ \E k \in EngineCallsAt(i) :
                       calls[k][2].audio = [kind |-> "path", path |-> p]
                /\ \/ RespOf(i).success
                   \/ RespOf(i) = [success |-> FALSE, error |-> EngineError]

C7_Witness ==
    \E i \in Lines :
        /\ IsOddWidthTranscribe(i)
        /\ HasResp(i)
        /\ RespOf(i).success
        /\ pc = "eof"

\* A step that reads a line.
ReadsLine == Len(consumed') = Len(consumed) + 1

LineRead == consumed'[Len(consumed')]

\* C8: a line that is not JSON is answered by one response {success: false,
\* error: "Invalid JSON: <parser message>"}, leaves the model handle and
\* identifier unchanged and does not end the loop; a ping on a later line is
\* still answered with pong.
C8_InvalidJSONAnswered ==
    \A i \in Lines :
        consumed[i].syntax = "invalid" =>
            /\ HasResp(i)
            /\ RespOf(i) =
                 [success |-> FALSE,
                  error |-> "Invalid JSON: Expecting value: line 1 column 1 (char 0)"]
            /\ \A j \in Lines :
                   (i < j /\ IsCmd(consumed[j], "ping")) =>
                       /\ HasResp(j)
                       /\ "pong" \in DOMAIN RespOf(j)
                       /\ RespOf(j).pong

C8_InvalidJSONStep ==
    (ReadsLine /\ LineRead.syntax = "invalid") =>
        /\ Len(stdout') = Len(stdout) + 1
        /\ UNCHANGED <<model, model_size>>
        /\ pc' = "loop"

C8_InvalidJSON == []C8_InvalidJSONAnswered /\ [][C8_InvalidJSONStep]_vars

C8_Witness ==
    \E i \in Lines, j \in Lines :
        /\ i < j
        /\ LoadSucceededBefore(i)
        /\ consumed[i].syntax = "invalid"
        /\ IsCmd(consumed[j], "ping")
        /\ HasResp(j)
        /\ RespOf(j).pong

\* The line is a transcribe request whose audio_path, "" when absent, is a
\* string that names no file on disk.
IsMissingFileTranscribe(line) ==
    /\ IsCmd(line, "transcribe")
    /\ IsPathLike(Get(line.obj, "audio_path", ""))
    /\ Get(line.obj, "audio_path", "") \notin ExistingFiles

\* C9: with a model loaded, a transcribe request whose audio_path does not
\* exist on disk is answered {success: false, error: "Audio file not found:
\* <audio_path>"}, without a call to the audio loader or the engine and
\* without a change of the server state.
C9_MissingFileStep ==
    (ReadsLine /\ model # NoModel /\ IsMissingFileTranscribe(LineRead)) =>
        /\ stdout' = Append(stdout,
              [success |-> FALSE,
               error |-> "Audio file not found: " \o
                            Get(LineRead.obj, "audio_path", "")])
        /\ UNCHANGED <<model, model_size, calls>>
        /\ pc' = "loop"

C9_MissingFile == [][C9_MissingFileStep]_vars

C9_Witness ==
    \E i \in Lines, j \in Lines :
        /\ i < j
        /\ LoadSucceededBefore(i)
        /\ IsCmd(consumed[i], "transcribe")
        /\ IsCmd(consumed[j], "transcribe")
        /\ "audio_path" \notin DOMAIN consumed[i].obj
        /\ Get(consumed[j].obj, "audio_path", "") = "missing.wav"
        /\ HasResp(j)
        /\ RespOf(i).error = "Audio file not found: "
        /\ RespOf(j).error = "Audio file not found: missing.wav"

\* C10: the device and compute_type of every successful load response are
\* resolved: neither is the string "auto", whatever the request carried and
\* whatever the GPU probe answered.
C10_LoadResultResolved ==
    \A i \in Lines :
        LoadSucceeded(i) =>
            /\ RespOf(i).device # "auto"
            /\ RespOf(i).compute_type # "auto"

C10_Witness ==
    \E i \in Lines, j \in Lines :
        /\ LoadSucceeded(i) /\ LoadSucceeded(j)
        /\ consumed[i].obj = [command |-> "load", device |-> "auto",
                              compute_type |-> "auto"]
        /\ consumed[j].obj = [command |-> "load"]
        /\ RespOf(i).device = "cuda"
        /\ RespOf(j).device = "cpu"

BannerLine == [ready |-> TRUE, version |-> "1.0"]

BannerCount == Cardinality({k \in 1..Len(stdout) : stdout[k] = BannerLine})

\* C11 as claimed: on every run the banner is the first line of output, is
\* written exactly once and is written before any input line is read.
C11_BannerOnEveryRun ==
    /\ pc = "start" => (stdout = << >> /\ consumed = << >>)
    /\ pc # "start" =>
           /\ Len(stdout) >= 1
           /\ stdout[1] = BannerLine
           /\ BannerCount = 1

\* C11 as amended: on every run on which the import of faster_whisper
\* succeeds the banner is the first line of output, is written exactly once
\* and is written before any input line is read; when the import fails the
\* only output is the failure line and no input line is read.
C11_BannerUnlessImportFails ==
    /\ pc = "start" => (stdout = << >> /\ consumed = << >>)
    /\ pc \notin {"start", "nodeps"} =>
           /\ Len(stdout) >= 1
           /\ stdout[1] = BannerLine
           /\ BannerCount = 1
    /\ pc = "nodeps" =>
           /\ consumed = << >>
           /\ Len(stdout) = 1
           /\ stdout[1].success = FALSE
           /\ BannerCount = 0

C11_Witness ==
    /\ pc = "eof"
    /\ Len(consumed) = 3
    /\ Len(stdout) = 4
    /\ stdout[1] = BannerLine

\* The line is a request whose command, "" when absent, is none of the four
\* commands of the protocol.
IsUnknownCommand(line) ==
    /\ line.syntax = "object"
    /\ Get(line.obj, "command", "") \notin {"ping", "load", "transcribe", "quit"}

\* C12: a request whose command is none of ping, load, transcribe and quit,
\* a request without a command field included, is answered {success: false,
\* error: "Unknown command: <command>"}, leaves the server state unchanged
\* and does not end the loop.
C12_UnknownCommandStep ==
    (ReadsLine /\ IsUnknownCommand(LineRead)) =>
        /\ stdout' = Append(stdout,
              [success |-> FALSE,
               error |-> "Unknown command: " \o Get(LineRead.obj, "command", "")])
        /\ UNCHANGED <<model, model_size, calls>>
        /\ pc' = "loop"

C12_UnknownCommand == [][C12_UnknownCommandStep]_vars

C12_Witness ==
    /\ Len(consumed) = 3
    /\ LoadSucceeded(1)
    /\ IsUnknownCommand(consumed[2])
    /\ IsUnknownCommand(consumed[3])
    /\ "command" \notin DOMAIN consumed[2].obj
    /\ "command" \in DOMAIN consumed[3].obj
    /\ HasResp(3)
    /\ RespOf(2).error = "Unknown command: "
    /\ RespOf(3).error = "Unknown command: status"
    /\ model # NoModel

\* C13: every line written after the banner is an object with a boolean
\* success field; with success false it carries an error string, with
\* success true it carries no error field.
C13_ResponseShape ==
    \A k \in 2..Len(stdout) :
        /\ "success" \in DOMAIN stdout[k]
        /\ stdout[k].success \in BOOLEAN
        /\ ~stdout[k].success =>
               ("error" \in DOMAIN stdout[k] /\ stdout[k].error \in STRING)
        /\ stdout[k].success => "error" \notin DOMAIN stdout[k]

C13_Witness ==
    /\ Len(stdout) = 4
    /\ stdout[2].success
    /\ "device" \in DOMAIN stdout[2]
    /\ ~stdout[3].success
    /\ stdout[3].error = EngineError
    /\ stdout[4].success
    /\ "pong" \in DOMAIN stdout[4]

\* C14: the model handle and the model identifier are changed by a load
\* command alone: every step that changes either of them reads a load
\* request.
C14_OnlyLoadChangesStateStep ==
    (model' # model \/ model_size' # model_size) =>
        (ReadsLine /\ IsCmd(LineRead, "load"))

C14_OnlyLoadChangesState == [][C14_OnlyLoadChangesStateStep]_vars

C14_Witness ==
    /\ pc = "quit"
    /\ Len(consumed) = 3
    /\ LoadSucceeded(1)
    /\ IsCmd(consumed[2], "transcribe")
    /\ RespOf(2).success
    /\ model = <<"base", "cpu", "int8">>
    /\ model_size = "base"

\* The audio_path of the i-th line, a transcribe request.
PathOf(i) == Get(consumed[i].obj, "audio_path", "")

\* The i-th line is a transcribe request for a file on disk, made after a
\* successful load.
IsFileTranscribe(i) ==
    /\ IsCmd(consumed[i], "transcribe")
    /\ LoadSucceededBefore(i)
    /\ IsPathLike(PathOf(i))
    /\ PathOf(i) \in ExistingFiles

\* Opening, reading or converting the file fails: it is no WAV container,
\* its sample width is unsupported, or it is empty and would be resampled.
ConversionFails(p) ==
    \/ ~Files[p].wav
    \/ Files[p].sample_width \notin {2, 4}
    \/ (Len(Files[p].frames) = 0 /\ Files[p].sample_rate # TargetRate)

\* C15: _load_audio never raises to its caller: a transcribe of a file on
\* disk is answered by the engine's outcome, and whenever opening, reading
\* or converting the file fails the engine is handed the path itself.
C15_LoaderFallsBackToPath ==
    \A i \in Lines :
        IsFileTranscribe(i) =>
            /\ HasResp(i)
            /\ \/ RespOf(i).success
               \/ RespOf(i) = [success |-> FALSE, error |-> EngineError]
            /\ \E k \in CallsAt(i) :
                   calls[k][2] = [fn |-> "_load_audio", audio_path |-> PathOf(i)]
            /\ Cardinality(EngineCallsAt(i)) = 1
            /\ ConversionFails(PathOf(i)) =>
                   \A k \in EngineCallsAt(i) :
                       calls[k][2].audio = [kind |-> "path", path |-> PathOf(i)]

C15_Witness ==
    \E i \in Lines :
        /\ IsFileTranscribe(i)
        /\ PathOf(i) = "clip.mp3"
        /\ HasResp(i)
        /\ RespOf(i).success
        /\ \E k \in EngineCallsAt(i) : calls[k][2].audio.kind = "path"

\* The two rationals are the same number.
SameValue(x, y) == x.n * y.d = y.n * x.d

\* C19: for a parseable WAV of N frames at rate R the buffer handed to the
\* engine has N values when R = 16000 and floor(N * 16000 / R) values
\* otherwise, for every N >= 0; a resampled buffer of at least 2 values
\* starts and ends with the first and the last input sample.
C19_BufferLength ==
    \A i \in Lines :
        (IsFileTranscribe(i) /\ Files[PathOf(i)].wav
             /\ Files[PathOf(i)].sample_width \in {2, 4}) =>
            \A k \in EngineCallsAt(i) :
                LET wf    == Files[PathOf(i)]
                    N     == Len(wf.frames)
                    audio == calls[k][2].audio
                IN  /\ audio.kind = "buffer"
                    /\ Len(audio.samples) =
                           IF wf.sample_rate = 16000 THEN N
                           ELSE (N * 16000) \div wf.sample_rate
                    /\ (wf.sample_rate # 16000 /\ Len(audio.samples) >= 2) =>
                           /\ SameValue(audio.samples[1],
                                  [n |-> SumSeq(wf.frames[1]),
                                   d |-> wf.n_channels])
                           /\ SameValue(audio.samples[Len(audio.samples)],
                                  [n |-> SumSeq(wf.frames[N]),
                                   d |-> wf.n_channels])

\* The handle of the model the most recent successful load before the i-th
\* line built, as its response describes it; NoModel when there is none.
LastHandle(i) ==
    LET S == {j \in 1..(i - 1) : LoadSucceeded(j)}
    IN  IF S = {} THEN NoModel
        ELSE LET j == CHOOSE x \in S : \A y \in S : y <= x
             IN  <<RespOf(j).model, RespOf(j).device, RespOf(j).compute_type>>

\* C16: a load that fails is answered {success: false, error: <message>}
\* and leaves the model handle and identifier as they were, so that a later
\* transcribe runs on the model of the most recent successful load.
C16_FailedLoadStep ==
    (ReadsLine /\ IsCmd(LineRead, "load")
         /\ Len(stdout') = Len(stdout) + 1
         /\ ~stdout'[Len(stdout')].success) =>
        /\ DOMAIN stdout'[Len(stdout')] = {"success", "error"}
        /\ stdout'[Len(stdout')].error \in {CtorError, ProbeError}
        /\ UNCHANGED <<model, model_size>>
        /\ pc' = "loop"

C16_EngineUsesLastLoad ==
    \A i \in Lines :
        \A k \in EngineCallsAt(i) : calls[k][2].model = LastHandle(i)

C16_FailedLoad == []C16_EngineUsesLastLoad /\ [][C16_FailedLoadStep]_vars

C16_Witness ==
    /\ Len(consumed) = 3
    /\ LoadSucceeded(1)
    /\ RespOf(1).model = "small"
    /\ IsCmd(consumed[2], "load")
    /\ RespOf(2) = [success |-> FALSE, error |-> CtorError]
    /\ IsCmd(consumed[3], "transcribe")
    /\ HasResp(3)
    /\ RespOf(3).success
    /\ model_size = "small"

\* C17: Ready is reached by a successful load alone and is never left: once
\* a load has succeeded no later transcribe is answered "Model not loaded"
\* and no later ping is answered with model null.
C17_ReadyStep ==
    /\ model # NoModel => (model' # NoModel /\ model_size' # None)
    /\ (model = NoModel /\ model' # NoModel) =>
           /\ ReadsLine
           /\ IsCmd(LineRead, "load")
           /\ stdout'[Len(stdout')].success

C17_ReadyAnswers ==
    \A i \in Lines :
        (LoadSucceededBefore(i) /\ HasResp(i)) =>
            /\ IsCmd(consumed[i], "transcribe") =>
                   RespOf(i) # [success |-> FALSE, error |-> "Model not loaded"]
            /\ IsCmd(consumed[i], "ping") => RespOf(i).model # None

C17_ReadyForGood == []C17_ReadyAnswers /\ [][C17_ReadyStep]_vars

C17_Witness ==
    /\ Len(consumed) = 3
    /\ LoadSucceeded(1)
    /\ IsCmd(consumed[2], "load")
    /\ ~RespOf(2).success
    /\ IsCmd(consumed[3], "ping")
    /\ HasResp(3)
    /\ RespOf(3).model = "base"
    /\ model # NoModel

\* C18: the model handle and the model identifier are set together: the
\* handle is None exactly when model_size is None.
C18_HandleAndSizeTogether == (model = NoModel) <=> (model_size = None)

C18_Witness ==
    /\ Len(consumed) = 2
    /\ IsCmd(consumed[1], "load") /\ ~RespOf(1).success
    /\ LoadSucceeded(2)
    /\ model # NoModel
    /\ model_size = "small"

\* C20: the server stops at the first quit request or, when none arrives, at
\* the end of the input; in the second case every non-blank line has been
\* answered and no goodbye has been written.
C20_StopsAtQuitOrEOF ==
    pc \notin {"start", "nodeps", "loop"} =>
        \/ /\ pc = "quit"
           /\ IsCmd(consumed[Len(consumed)], "quit")
           /\ \A i \in 1..(Len(consumed) - 1) : ~IsCmd(consumed[i], "quit")
        \/ /\ pc = "eof"
           /\ stdin_left = 0
           /\ \A i \in Lines : ~IsCmd(consumed[i], "quit")
           /\ Len(stdout) = 1 + NonBlankCount(Len(consumed))
           /\ \A k \in 1..Len(stdout) : "goodbye" \notin DOMAIN stdout[k]

====
